---- MODULE Spec2Model ----
(***************************************************************************)
(* The Consumer reconciler of the JetStream controller                     *)
(* (controllers/jetstream/consumer.go) for one Consumer key: the object in *)
(* the declarative store, the informer cache the workers read, the remote  *)
(* consumer in the backend, and the work queue that drives the workers.    *)
(***************************************************************************)
EXTENDS Integers, Sequences, FiniteSets, TLC

(* ------------------------------ bounds -------------------------------- *)

\* Largest Generation the store hands out in the model.
MaxGen == 2

\* Parallel workers of the Consumer queue.
NumWorkers == 2

\* Retries the queue grants a failing key before it drops it.
maxQueueRetries == 2

(* ----------------------------- constants ------------------------------ *)

consumerFinalizerKey == "consumerfinalizer.jetstream.nats.io"

\* The Stream reconciler's token; consumer.go uses it at lines 218 and 232.
streamFinalizerKey == "streamfinalizer.jetstream.nats.io"

readyCondType == "Ready"

Key == "default/my-consumer"

Workers == 1..NumWorkers

(* ------------------------------ objects ------------------------------- *)

\* A status condition (LastTransitionTime is wall-clock time and is left out).
Condition(status, reason, message) ==
    [Type |-> readyCondType, Status |-> status, Reason |-> reason, Message |-> message]

CreatedCondition == Condition("True", "Created", "Consumer successfully created")

ErroredCondition(err) == Condition("False", "Errored", err)

\* apis.Consumer: the fields the reconciler reads or writes.
\* deleting stands for DeletionTimestamp != nil.
Consumer(gen, del, fins, obs, conds) ==
    [present |-> TRUE, Generation |-> gen, deleting |-> del, Finalizers |-> fins,
     ObservedGeneration |-> obs, Conditions |-> conds]

\* No object under the key.
Absent ==
    [present |-> FALSE, Generation |-> 0, deleting |-> FALSE, Finalizers |-> <<>>,
     ObservedGeneration |-> 0, Conditions |-> <<>>]

Contains(seq, x) == \E i \in 1..Len(seq) : seq[i] = x

\* Add is a no-op when the token is present, else appends it.
addFinalizer(fs, key) == IF Contains(fs, key) THEN fs ELSE Append(fs, key)

\* Remove drops every occurrence of the token and keeps the order of the rest.
removeFinalizer(fs, key) == SelectSeq(fs, LAMBDA f : f # key)

RECURSIVE upsertFrom(_, _, _)
upsertFrom(cs, next, i) ==
    IF i > Len(cs) THEN Append(cs, next)
    ELSE IF cs[i].Type # next.Type THEN upsertFrom(cs, next, i + 1)
    ELSE [cs EXCEPT ![i] = next]

\* Replace the first entry whose Type matches, else append.
upsertCondition(cs, next) == upsertFrom(cs, next, 1)

(* ------------------------------ state --------------------------------- *)

VARIABLES
    store,        \* the Consumer in the declarative store, or Absent
    cache,        \* the object the lister returns for the key (shared pointer), or Absent
    cacheFresh,   \* the cached object carries the store's current resourceVersion
    remote,       \* the consumer exists in the backend
    created,      \* the remote consumer in the backend was made by NewConsumer
    queue,        \* workqueue: keys waiting for a worker
    dirty,        \* workqueue: keys that need processing
    processing,   \* workqueue: keys a worker holds
    numRequeues,  \* rate limiter: failures counted for the key
    delayed,      \* an AddRateLimited timer for the key is pending
    wstate,       \* per worker: "idle" (in Get), "busy" (holds the key) or
                  \* "returned" (processQueueNext has returned on shutdown)
    reconciled,   \* a reconciliation of the object has completed
    shuttingDown, \* the queue has been shut down
    last          \* what the reconciliation that has just returned did

vars == <<store, cache, cacheFresh, remote, created, queue, dirty, processing,
          numRequeues, delayed, wstate, reconciled, shuttingDown, last>>

(* ---------------------- one reconciliation's context ------------------ *)

\* The calls a reconciliation can see fail.
FailPoints == {"none", "Get", "Creds", "Connect", "Load", "New", "SetFinalizer",
               "SetOK", "DeleteLoad", "Delete", "DeleteNotFound", "ClearFinalizer"}

\* cns is the local variable of processConsumer; it aliases the cached object
\* until line 93 replaces it by the object the store returned.
NewCtx(c, cf, s, r, cr) ==
    [cache |-> c, cns |-> c, cnsFresh |-> cf, store |-> s, cacheFresh |-> cf,
     remote |-> r, created |-> cr, connected |-> FALSE, found |-> FALSE,
     res |-> Absent, action |-> "none",
     calls |-> <<>>, failed |-> <<>>, events |-> <<>>, writes |-> <<>>, err |-> <<>>,
     trace |-> <<>>]

\* trace keeps the calls, the events and the store writes of the run in the
\* order the run makes them.
Call(x, name) ==
    [x EXCEPT !.calls = Append(@, name), !.trace = Append(@, <<"call", name>>)]

normalEvent(x, reason) ==
    [x EXCEPT !.events = Append(@, <<"Normal", reason>>),
              !.trace = Append(@, <<"event", reason>>)]

warningEvent(x, reason) ==
    [x EXCEPT !.events = Append(@, <<"Warning", reason>>),
              !.trace = Append(@, <<"event", reason>>)]

\* The call `what` has failed: the error the function returns names it.
Fail(x, what) == [x EXCEPT !.err = <<what>>, !.failed = Append(@, what)]

\* ConsumerInterface.Update: writes metadata (the finalizers); rejected when
\* the object is stale or gone. A deleting object left without finalizers is
\* removed by the store.
Update(x, obj, inject) ==
    LET ok == ~inject /\ x.cnsFresh /\ x.store.present
        merged == [x.store EXCEPT !.Finalizers = obj.Finalizers]
        after == IF merged.deleting /\ merged.Finalizers = <<>> THEN Absent ELSE merged
        changed == ok /\ after # x.store
    IN [x EXCEPT !.writes = Append(@, [op |-> "Update", ok |-> ok, obj |-> obj]),
                 !.trace = Append(@, <<"write", "Update">>),
                 !.store = IF ok THEN after ELSE @,
                 !.res = IF ok THEN after ELSE Absent,
                 !.cacheFresh = IF changed THEN FALSE ELSE @,
                 !.cnsFresh = IF changed THEN FALSE ELSE @]

\* ConsumerInterface.UpdateStatus: writes the status only.
UpdateStatus(x, obj, inject) ==
    LET ok == ~inject /\ x.cnsFresh /\ x.store.present
        after == [x.store EXCEPT !.ObservedGeneration = obj.ObservedGeneration,
                                 !.Conditions = obj.Conditions]
        changed == ok /\ after # x.store
    IN [x EXCEPT !.writes = Append(@, [op |-> "UpdateStatus", ok |-> ok, obj |-> obj]),
                 !.trace = Append(@, <<"write", "UpdateStatus">>),
                 !.store = IF ok THEN after ELSE @,
                 !.res = IF ok THEN after ELSE Absent,
                 !.cacheFresh = IF changed THEN FALSE ELSE @,
                 !.cnsFresh = IF changed THEN FALSE ELSE @]

WriteOK(x) == x.writes[Len(x.writes)].ok

(* ------------------------- consumer.go helpers ------------------------ *)

consumerExists(x, fail) ==
    LET y == Call(x, "LoadConsumer") IN
    IF fail = "Load" THEN Fail(y, "Load")
    ELSE [y EXCEPT !.found = x.remote]

createConsumer(x, fail) ==
    LET y == Call(x, "NewConsumer") IN
    IF fail = "New" THEN Fail(y, "New")
    ELSE [y EXCEPT !.remote = TRUE, !.created = TRUE]

\* "DeleteNotFound": the remote consumer goes between LoadConsumer and
\* Delete, and Delete fails with NotFound.
deleteConsumer(x, fail) ==
    LET y == Call(x, "LoadConsumer") IN
    IF fail = "DeleteLoad" THEN Fail(y, "DeleteLoad")
    ELSE IF ~y.remote THEN y
    ELSE LET z == Call(y, "Delete") IN
         IF fail = "Delete" THEN Fail(z, "Delete")
         ELSE IF fail = "DeleteNotFound"
              THEN Fail([z EXCEPT !.remote = FALSE, !.created = FALSE], "DeleteNotFound")
         ELSE [z EXCEPT !.remote = FALSE, !.created = FALSE]

\* As setConsumerOK, with the condition appended instead of upserted.
setConsumerOKAppending(x, fail) ==
    LET s == x.cns
        sc == [s EXCEPT !.ObservedGeneration = s.Generation,
                        !.Conditions = Append(@, CreatedCondition)]
        y == UpdateStatus(x, sc, fail = "SetOK")
    IN IF WriteOK(y) THEN y ELSE Fail(y, "SetOK")

setConsumerOK(x, fail) ==
    LET s == x.cns
        sc == [s EXCEPT !.ObservedGeneration = s.Generation,
                        !.Conditions = upsertCondition(@, CreatedCondition)]
        y == UpdateStatus(x, sc, fail = "SetOK")
    IN IF WriteOK(y) THEN y ELSE Fail(y, "SetOK")

\* As setConsumerErrored, with the condition appended instead of upserted.
setConsumerErroredAppending(x, inject) ==
    LET s == x.cns
        sc == [s EXCEPT !.Conditions = Append(@, ErroredCondition(x.err[1]))]
        y == UpdateStatus(x, sc, inject)
    IN IF WriteOK(y) THEN y
       ELSE [y EXCEPT !.err = Append(@, "UpdateStatus"), !.failed = Append(@, "UpdateStatus")]

\* As setConsumerErrored, with ObservedGeneration refreshed as setConsumerOK does.
setConsumerErroredAdvancing(x, inject) ==
    LET s == x.cns
        sc == [s EXCEPT !.ObservedGeneration = s.Generation,
                        !.Conditions = upsertCondition(@, ErroredCondition(x.err[1]))]
        y == UpdateStatus(x, sc, inject)
    IN IF WriteOK(y) THEN y
       ELSE [y EXCEPT !.err = Append(@, "UpdateStatus"), !.failed = Append(@, "UpdateStatus")]

\* As setConsumerErrored, with the status-write failure discarded.
setConsumerErroredDiscarding(x, inject) ==
    LET s == x.cns
        sc == [s EXCEPT !.Conditions = upsertCondition(@, ErroredCondition(x.err[1]))]
    IN UpdateStatus(x, sc, inject)

setConsumerErrored(x, inject) ==
    LET s == x.cns
        sc == [s EXCEPT !.Conditions = upsertCondition(@, ErroredCondition(x.err[1]))]
        y == UpdateStatus(x, sc, inject)
    IN IF WriteOK(y) THEN y
       ELSE [y EXCEPT !.err = Append(@, "UpdateStatus"), !.failed = Append(@, "UpdateStatus")]

\* SetFinalizers works on the object it is handed, which is the cached one.
setConsumerFinalizer(x, fail) ==
    LET s == [x.cns EXCEPT !.Finalizers = addFinalizer(@, streamFinalizerKey)]
        y == Update([x EXCEPT !.cns = s, !.cache = s], s, fail = "SetFinalizer")
    IN IF WriteOK(y) THEN y ELSE Fail(y, "SetFinalizer")

clearConsumerFinalizer(x, fail) ==
    LET s == [x.cns EXCEPT !.Finalizers = removeFinalizer(@, streamFinalizerKey)]
        y == Update([x EXCEPT !.cns = s, !.cache = s], s, fail = "ClearFinalizer")
    IN IF WriteOK(y) THEN y ELSE Fail(y, "ClearFinalizer")

(* --------------------------- processConsumer -------------------------- *)

\* As applyCreate, with the finalizer written before the consumer is created.
applyCreateFinalizerFirst(x, fail) ==
    LET a == setConsumerFinalizer(normalEvent([x EXCEPT !.action = "create"], "Creating"), fail) IN
    IF a.err # <<>> THEN a
    ELSE LET b == createConsumer([a EXCEPT !.cns = a.res, !.cnsFresh = TRUE], fail) IN
         IF b.err # <<>> THEN b
         ELSE LET d == setConsumerOK(b, fail)
              IN IF d.err # <<>> THEN d ELSE normalEvent(d, "Created")

\* As applyCreate, with Created emitted as soon as the finalizer is written.
applyCreateAnnouncingEarly(x, fail) ==
    LET a == createConsumer(normalEvent([x EXCEPT !.action = "create"], "Creating"), fail) IN
    IF a.err # <<>> THEN a
    ELSE LET b == setConsumerFinalizer(a, fail) IN
         IF b.err # <<>> THEN b
         ELSE setConsumerOK(normalEvent([b EXCEPT !.cns = b.res, !.cnsFresh = TRUE], "Created"),
                            fail)

\* case createOK (lines 82-99)
applyCreate(x, fail) ==
    LET a == createConsumer(normalEvent([x EXCEPT !.action = "create"], "Creating"), fail) IN
    IF a.err # <<>> THEN a
    ELSE LET b == setConsumerFinalizer(a, fail) IN
         IF b.err # <<>> THEN b
         ELSE LET c == [b EXCEPT !.cns = b.res, !.cnsFresh = TRUE]
                  d == setConsumerOK(c, fail)
              IN IF d.err # <<>> THEN d ELSE normalEvent(d, "Created")

\* As applyUpdate, with the status advanced as after a create.
applyUpdateAdvancing(x) ==
    setConsumerOK(warningEvent([x EXCEPT !.action = "update"], "Updating"), "none")

\* case updateOK (lines 100-102)
applyUpdate(x) == warningEvent([x EXCEPT !.action = "update"], "Updating")

\* As applyDelete, with the status written once the finalizer is cleared.
applyDeleteWritingStatus(x, fail) ==
    LET a == deleteConsumer(normalEvent([x EXCEPT !.action = "delete"], "Deleting"), fail) IN
    IF a.err # <<>> THEN a
    ELSE LET b == clearConsumerFinalizer(a, fail) IN
         IF b.err # <<>> THEN b
         ELSE LET d == setConsumerOK([b EXCEPT !.cns = b.res, !.cnsFresh = TRUE], "none")
              IN [d EXCEPT !.err = <<>>, !.failed = <<>>]

\* case deleteOK (lines 103-111)
applyDelete(x, fail) ==
    LET a == deleteConsumer(normalEvent([x EXCEPT !.action = "delete"], "Deleting"), fail) IN
    IF a.err # <<>> THEN a ELSE clearConsumerFinalizer(a, fail)

\* As applyNoop, with the Created status written again.
applyNoopWritingStatus(x) ==
    setConsumerOK(warningEvent([x EXCEPT !.action = "noop"], "Noop"), "none")

\* default (lines 112-113)
applyNoop(x) == warningEvent([x EXCEPT !.action = "noop"], "Noop")

\* As reconcileBody, with createOK and updateOK computed without deleteOK.
reconcileBodyIgnoringDeletion(x, fail) ==
    LET a == Call(x, "getCreds") IN
    IF fail = "Creds" THEN Fail(a, "Creds")
    ELSE LET b == Call(normalEvent(a, "Connecting"), "Connect") IN
         IF fail = "Connect" THEN Fail(b, "Connect")
         ELSE LET c == normalEvent([b EXCEPT !.connected = TRUE], "Connected")
                  deleteOK == c.cns.deleting
                  newGeneration == c.cns.Generation # c.cns.ObservedGeneration
                  d == consumerExists(c, fail)
              IN IF d.err # <<>> THEN d
                 ELSE LET consumerOK == d.found
                          updateOK == consumerOK /\ newGeneration
                          createOK == ~consumerOK /\ newGeneration
                      IN IF createOK THEN applyCreate(d, fail)
                         ELSE IF updateOK THEN applyUpdate(d)
                         ELSE IF deleteOK THEN applyDelete(d, fail)
                         ELSE applyNoop(d)

\* lines 56-116: from the credential lookup to the switch
reconcileBody(x, fail) ==
    LET a == Call(x, "getCreds") IN
    IF fail = "Creds" THEN Fail(a, "Creds")
    ELSE LET b == Call(normalEvent(a, "Connecting"), "Connect") IN
         IF fail = "Connect" THEN Fail(b, "Connect")
         ELSE LET c == normalEvent([b EXCEPT !.connected = TRUE], "Connected")
                  deleteOK == c.cns.deleting
                  newGeneration == c.cns.Generation # c.cns.ObservedGeneration
                  d == consumerExists(c, fail)
              IN IF d.err # <<>> THEN d
                 ELSE LET consumerOK == d.found
                          updateOK == consumerOK /\ ~deleteOK /\ newGeneration
                          createOK == ~consumerOK /\ ~deleteOK /\ newGeneration
                      IN IF createOK THEN applyCreate(d, fail)
                         ELSE IF updateOK THEN applyUpdate(d)
                         ELSE IF deleteOK THEN applyDelete(d, fail)
                         ELSE applyNoop(d)

\* As processConsumer, with Close called at the end of the body only, so
\* that a return with an error leaves the connection open.
processConsumerClosingOnSuccess(c, cf, s, r, cr, fail, serr) ==
    LET x == NewCtx(c, cf, s, r, cr) IN
    IF fail = "Get" THEN [Fail(x, "Get") EXCEPT !.action = "geterror"]
    ELSE IF ~c.present THEN [x EXCEPT !.action = "absent"]
    ELSE LET body == reconcileBody(x, fail)
             closed == IF body.connected /\ body.err = <<>> THEN Call(body, "Close") ELSE body
         IN IF closed.err # <<>> THEN setConsumerErrored(closed, serr) ELSE closed

\* As processConsumer, with the error handler in place before the lister
\* read, so that a failed read is reported in the status as well.
processConsumerReportingGetError(c, cf, s, r, cr, fail, serr) ==
    LET x == NewCtx(c, cf, s, r, cr) IN
    IF fail = "Get"
    THEN setConsumerErrored([Fail(x, "Get") EXCEPT !.action = "geterror"], serr)
    ELSE IF ~c.present THEN [x EXCEPT !.action = "absent"]
    ELSE LET body == reconcileBody(x, fail)
             closed == IF body.connected THEN Call(body, "Close") ELSE body
         IN IF closed.err # <<>> THEN setConsumerErrored(closed, serr) ELSE closed

\* The whole of processConsumer: the lister read, the body, then the deferred
\* calls in the order they run (Close, the error handler).
processConsumer(c, cf, s, r, cr, fail, serr) ==
    LET x == NewCtx(c, cf, s, r, cr) IN
    IF fail = "Get" THEN [Fail(x, "Get") EXCEPT !.action = "geterror"]
    ELSE IF ~c.present THEN [x EXCEPT !.action = "absent"]
    ELSE LET body == reconcileBody(x, fail)
             closed == IF body.connected THEN Call(body, "Close") ELSE body
         IN IF closed.err # <<>> THEN setConsumerErrored(closed, serr) ELSE closed

(* ---------------------------- processStream ---------------------------- *)

\* The Stream reconciler: the same engine for a kind the backend can update
\* in place.

StreamCreatedCondition == Condition("True", "Created", "Stream successfully created")

StreamUpdatedCondition == Condition("True", "Updated", "Stream successfully updated")

\* The calls a Stream reconciliation can see fail.
StreamFailPoints == {"none", "Get", "Creds", "Connect", "Load", "New", "SetFinalizer",
                     "SetOK", "UpdateLoad", "RemoteUpdate", "DeleteLoad", "Delete",
                     "ClearFinalizer"}

streamExists(x, fail) ==
    LET y == Call(x, "LoadStream") IN
    IF fail = "Load" THEN Fail(y, "Load")
    ELSE [y EXCEPT !.found = x.remote]

createStream(x, fail) ==
    LET y == Call(x, "NewStream") IN
    IF fail = "New" THEN Fail(y, "New")
    ELSE [y EXCEPT !.remote = TRUE, !.created = TRUE]

\* Load the handle, then Update on it.
updateStream(x, fail) ==
    LET y == Call(x, "LoadStream") IN
    IF fail = "UpdateLoad" THEN Fail(y, "UpdateLoad")
    ELSE LET z == Call(y, "Update") IN
         IF fail = "RemoteUpdate" THEN Fail(z, "RemoteUpdate") ELSE z

deleteStream(x, fail) ==
    LET y == Call(x, "LoadStream") IN
    IF fail = "DeleteLoad" THEN Fail(y, "DeleteLoad")
    ELSE IF ~y.remote THEN y
    ELSE LET z == Call(y, "Delete") IN
         IF fail = "Delete" THEN Fail(z, "Delete")
         ELSE [z EXCEPT !.remote = FALSE, !.created = FALSE]

setStreamOK(x, cond, fail) ==
    LET s == x.cns
        sc == [s EXCEPT !.ObservedGeneration = s.Generation,
                        !.Conditions = upsertCondition(@, cond)]
        y == UpdateStatus(x, sc, fail = "SetOK")
    IN IF WriteOK(y) THEN y ELSE Fail(y, "SetOK")

setStreamErrored(x, inject) ==
    LET s == x.cns
        sc == [s EXCEPT !.Conditions = upsertCondition(@, ErroredCondition(x.err[1]))]
        y == UpdateStatus(x, sc, inject)
    IN IF WriteOK(y) THEN y
       ELSE [y EXCEPT !.err = Append(@, "UpdateStatus"), !.failed = Append(@, "UpdateStatus")]

setStreamFinalizer(x, fail) ==
    LET s == [x.cns EXCEPT !.Finalizers = addFinalizer(@, streamFinalizerKey)]
        y == Update([x EXCEPT !.cns = s, !.cache = s], s, fail = "SetFinalizer")
    IN IF WriteOK(y) THEN y ELSE Fail(y, "SetFinalizer")

clearStreamFinalizer(x, fail) ==
    LET s == [x.cns EXCEPT !.Finalizers = removeFinalizer(@, streamFinalizerKey)]
        y == Update([x EXCEPT !.cns = s, !.cache = s], s, fail = "ClearFinalizer")
    IN IF WriteOK(y) THEN y ELSE Fail(y, "ClearFinalizer")

applyStreamCreate(x, fail) ==
    LET a == createStream(normalEvent([x EXCEPT !.action = "create"], "Creating"), fail) IN
    IF a.err # <<>> THEN a
    ELSE LET b == setStreamFinalizer(a, fail) IN
         IF b.err # <<>> THEN b
         ELSE LET c == [b EXCEPT !.cns = b.res, !.cnsFresh = TRUE]
                  d == setStreamOK(c, StreamCreatedCondition, fail)
              IN IF d.err # <<>> THEN d ELSE normalEvent(d, "Created")

\* As applyStreamUpdate, with the update treated as the Consumer's is: a
\* warning and nothing else.
applyStreamUpdateWarning(x, fail) ==
    warningEvent([x EXCEPT !.action = "update"], "Updating")

applyStreamUpdate(x, fail) ==
    LET a == updateStream(normalEvent([x EXCEPT !.action = "update"], "Updating"), fail) IN
    IF a.err # <<>> THEN a
    ELSE LET d == setStreamOK(a, StreamUpdatedCondition, fail)
         IN IF d.err # <<>> THEN d ELSE normalEvent(d, "Updated")

applyStreamDelete(x, fail) ==
    LET a == deleteStream(normalEvent([x EXCEPT !.action = "delete"], "Deleting"), fail) IN
    IF a.err # <<>> THEN a ELSE clearStreamFinalizer(a, fail)

processStream(c, cf, s, r, cr, fail, serr) ==
    LET x == NewCtx(c, cf, s, r, cr)
        a == Call(x, "getCreds")
        b == Call(normalEvent(a, "Connecting"), "Connect")
        d == streamExists(normalEvent([b EXCEPT !.connected = TRUE], "Connected"), fail)
        deleteOK == c.deleting
        newGeneration == c.Generation # c.ObservedGeneration
        body == IF fail = "Creds" THEN Fail(a, "Creds")
                ELSE IF fail = "Connect" THEN Fail(b, "Connect")
                ELSE IF d.err # <<>> THEN d
                ELSE IF ~d.found /\ ~deleteOK /\ newGeneration THEN applyStreamCreate(d, fail)
                ELSE IF d.found /\ ~deleteOK /\ newGeneration THEN applyStreamUpdate(d, fail)
                ELSE IF deleteOK THEN applyStreamDelete(d, fail)
                ELSE applyNoop(d)
        closed == IF body.connected THEN Call(body, "Close") ELSE body
    IN IF fail = "Get" THEN [Fail(x, "Get") EXCEPT !.action = "geterror"]
       ELSE IF ~c.present THEN [x EXCEPT !.action = "absent"]
       ELSE IF closed.err # <<>> THEN setStreamErrored(closed, serr) ELSE closed

(* ------------------------------ work queue ---------------------------- *)

\* As AddKey, without the deferral of a key that a worker holds.
AddKeyWhileProcessing ==
    IF Key \in dirty THEN UNCHANGED <<queue, dirty>>
    ELSE /\ dirty' = dirty \cup {Key}
         /\ queue' = Append(queue, Key)

\* workqueue.Add
AddKey ==
    IF Key \in dirty THEN UNCHANGED <<queue, dirty>>
    ELSE /\ dirty' = dirty \cup {Key}
         /\ queue' = IF Key \in processing THEN queue ELSE Append(queue, Key)

\* No reconciliation has just returned.
NoRun == [ran |-> FALSE]

(* ------------------------------- actions ------------------------------ *)

InitObjects ==
    {Consumer(g, d, f, o, cs) :
        g \in 1..MaxGen, d \in BOOLEAN,
        f \in {<<>>, <<consumerFinalizerKey>>, <<streamFinalizerKey>>},
        o \in 0..MaxGen,
        cs \in {<<>>, <<CreatedCondition>>}}

Init ==
    /\ store \in {o \in InitObjects : o.ObservedGeneration <= o.Generation}
    /\ cache = store
    /\ cacheFresh = TRUE
    /\ remote \in BOOLEAN
    /\ created = FALSE
    /\ queue = <<Key>>
    /\ dirty = {Key}
    /\ processing = {}
    /\ numRequeues = 0
    /\ delayed = FALSE
    /\ wstate = [w \in Workers |-> "idle"]
    /\ reconciled = FALSE
    /\ shuttingDown = FALSE
    /\ last = NoRun

\* A user changes the spec: the store bumps Generation.
UserEdit ==
    /\ store.present /\ ~store.deleting /\ store.Generation < MaxGen
    /\ store' = [store EXCEPT !.Generation = @ + 1]
    /\ cacheFresh' = FALSE
    /\ last' = NoRun
    /\ UNCHANGED <<cache, remote, created, queue, dirty, processing, numRequeues,
                   delayed, wstate, reconciled, shuttingDown>>

\* A user deletes the object: DeletionTimestamp is set, and the object goes
\* at once when no finalizer holds it.
UserDelete ==
    /\ store.present /\ ~store.deleting
    /\ store' = IF store.Finalizers = <<>> THEN Absent ELSE [store EXCEPT !.deleting = TRUE]
    /\ cacheFresh' = FALSE
    /\ last' = NoRun
    /\ UNCHANGED <<cache, remote, created, queue, dirty, processing, numRequeues,
                   delayed, wstate, reconciled, shuttingDown>>

\* The informer applies the pending watch event to the cache and its handler
\* enqueues the key.
InformerSync ==
    /\ ~cacheFresh
    /\ cache' = store
    /\ cacheFresh' = TRUE
    /\ AddKey
    /\ last' = NoRun
    /\ UNCHANGED <<store, remote, created, processing, numRequeues, delayed,
                   wstate, reconciled, shuttingDown>>

\* workqueue.Get by an idle worker
Get(w) ==
    /\ wstate[w] = "idle"
    /\ ~shuttingDown
    /\ queue # <<>>
    /\ queue' = Tail(queue)
    /\ processing' = processing \cup {Head(queue)}
    /\ dirty' = dirty \ {Head(queue)}
    /\ wstate' = [wstate EXCEPT ![w] = "busy"]
    /\ last' = NoRun
    /\ UNCHANGED <<store, cache, cacheFresh, remote, created, numRequeues, delayed,
                   reconciled, shuttingDown>>

\* What a run of processConsumer leaves behind in the store, the cache and
\* the backend, and the record of the run.
Ran(x) ==
    /\ store' = x.store
    /\ cache' = x.cache
    /\ cacheFresh' = x.cacheFresh
    /\ remote' = x.remote
    /\ created' = x.created
    /\ reconciled' = (reconciled \/ (x.action \notin {"absent", "geterror"}))
    /\ last' = [ran |-> TRUE, pre |-> cache, preStore |-> store, preRemote |-> remote,
                action |-> x.action, calls |-> x.calls, failed |-> x.failed,
                events |-> x.events, writes |-> x.writes, err |-> x.err,
                trace |-> x.trace]

\* One call of processConsumer for the key, whenever a worker makes it.
Reconcile(fail, serr) ==
    /\ Ran(processConsumer(cache, cacheFresh, store, remote, created, fail, serr))
    /\ UNCHANGED <<queue, dirty, processing, numRequeues, delayed, wstate, shuttingDown>>

\* As Process, with a failing key added again whatever its count of failures.
ProcessRetryingUnbounded(w, fail, serr) ==
    /\ wstate[w] = "busy"
    /\ LET x == processConsumer(cache, cacheFresh, store, remote, created, fail, serr)
           retry == x.err # <<>>
       IN /\ Ran(x)
          /\ numRequeues' = IF retry THEN numRequeues + 1 ELSE 0
          /\ delayed' = (retry \/ delayed)
    /\ processing' = processing \ {Key}
    /\ queue' = IF Key \in dirty THEN Append(queue, Key) ELSE queue
    /\ wstate' = [wstate EXCEPT ![w] = "idle"]
    /\ UNCHANGED <<dirty, shuttingDown>>

\* processQueueNext after Get: the reconciliation, then Forget or
\* AddRateLimited, then Done.
Process(w, fail, serr) ==
    /\ wstate[w] = "busy"
    /\ LET x == processConsumer(cache, cacheFresh, store, remote, created, fail, serr)
           retry == x.err # <<>> /\ numRequeues < maxQueueRetries
       IN /\ Ran(x)
          /\ numRequeues' = IF retry THEN numRequeues + 1 ELSE 0
          /\ delayed' = (retry \/ delayed)
    /\ processing' = processing \ {Key}
    /\ queue' = IF Key \in dirty THEN Append(queue, Key) ELSE queue
    /\ wstate' = [wstate EXCEPT ![w] = "idle"]
    /\ UNCHANGED <<dirty, shuttingDown>>

\* The rate limiter's delay has passed: the key is added again.
DelayFire ==
    /\ delayed
    /\ delayed' = FALSE
    /\ AddKey
    /\ last' = NoRun
    /\ UNCHANGED <<store, cache, cacheFresh, remote, created, processing, numRequeues,
                   wstate, reconciled, shuttingDown>>

\* The failures the workers' runs meet under the queue: before the backend is
\* reached, after NewConsumer, and after Delete.
QueueFailPoints == {"none", "Connect", "SetFinalizer", "ClearFinalizer"}

\* runConsumerQueue: every worker loops over processQueueNext.
runConsumerQueue(w) ==
    \/ Get(w)
    \/ \E fail \in QueueFailPoints, serr \in BOOLEAN : Process(w, fail, serr)

\* The reconciler with its surroundings: the key is reconciled at any time.
Next ==
    \/ UserEdit
    \/ UserDelete
    \/ InformerSync
    \/ \E fail \in FailPoints, serr \in BOOLEAN : Reconcile(fail, serr)

Spec == Init /\ [][Next]_vars

\* The same with the work queue between the notifications and the workers.
QueueNext ==
    \/ UserEdit
    \/ UserDelete
    \/ InformerSync
    \/ DelayFire
    \/ \E w \in Workers : runConsumerQueue(w)

QueueSpec == Init /\ [][QueueNext]_vars

\* ENABLED <<Process(w, fail, serr)>>_vars: a worker that holds the key can
\* always make its run, and the run changes wstate.
ProcessEnabled(w) == wstate[w] = "busy"

\* Workers and the informer keep running, a pending retry fires, and failures
\* are transient: a worker that holds the key again and again gets a run in
\* which every call succeeds. The last conjunct is SF_vars(Process(w, "none",
\* FALSE)) with ENABLED written out as ProcessEnabled.
FairQueueSpec ==
    /\ QueueSpec
    /\ WF_vars(InformerSync)
    /\ WF_vars(DelayFire)
    /\ \A w \in Workers : WF_vars(Get(w))
    /\ \A w \in Workers : \/ <>[]~ProcessEnabled(w)
                           \/ []<><<Process(w, "none", FALSE)>>_vars

\* The queue is shut down.
ShutDown ==
    /\ ~shuttingDown
    /\ shuttingDown' = TRUE
    /\ last' = NoRun
    /\ UNCHANGED <<store, cache, cacheFresh, remote, created, queue, dirty, processing,
                   numRequeues, delayed, wstate, reconciled>>

\* processQueueNext on a queue that is shut down: Get reports the shutdown
\* and processQueueNext returns without a reconciliation.
GetShutdown(w) ==
    /\ wstate[w] = "idle"
    /\ shuttingDown
    /\ wstate' = [wstate EXCEPT ![w] = "returned"]
    /\ last' = NoRun
    /\ UNCHANGED <<store, cache, cacheFresh, remote, created, queue, dirty, processing,
                   numRequeues, delayed, reconciled, shuttingDown>>

\* runConsumerQueue's for statement has no condition and its body no break
\* or return: after processQueueNext has returned it is called again.
LoopAgain(w) ==
    /\ wstate[w] = "returned"
    /\ wstate' = [wstate EXCEPT ![w] = "idle"]
    /\ last' = NoRun
    /\ UNCHANGED <<store, cache, cacheFresh, remote, created, queue, dirty, processing,
                   numRequeues, delayed, reconciled, shuttingDown>>

\* The queue and its workers with the shutdown of the queue.
ShutdownNext ==
    \/ QueueNext
    \/ ShutDown
    \/ \E w \in Workers : GetShutdown(w)
    \/ \E w \in Workers : LoopAgain(w)

ShutdownSpec == Init /\ [][ShutdownNext]_vars

\* Every worker goroutine keeps running: it takes the step it can take.
FairShutdownSpec ==
    /\ ShutdownSpec
    /\ \A w \in Workers : WF_vars(GetShutdown(w))
    /\ \A w \in Workers : WF_vars(LoopAgain(w))
    /\ \A w \in Workers : \/ <>[]~ProcessEnabled(w)
                           \/ []<><<Process(w, "none", FALSE)>>_vars

\* The Stream objects a run can start from.
StreamInitObjects ==
    {Consumer(g, d, f, o, cs) :
        g \in 1..MaxGen, d \in BOOLEAN,
        f \in {<<>>, <<streamFinalizerKey>>},
        o \in 0..MaxGen,
        cs \in {<<>>, <<StreamCreatedCondition>>}}

StreamInit ==
    /\ store \in {o \in StreamInitObjects : o.ObservedGeneration <= o.Generation}
    /\ cache = store
    /\ cacheFresh = TRUE
    /\ remote \in BOOLEAN
    /\ created = FALSE
    /\ queue = <<Key>>
    /\ dirty = {Key}
    /\ processing = {}
    /\ numRequeues = 0
    /\ delayed = FALSE
    /\ wstate = [w \in Workers |-> "idle"]
    /\ reconciled = FALSE
    /\ shuttingDown = FALSE
    /\ last = NoRun

\* One call of processStream for the key.
StreamReconcile(fail, serr) ==
    /\ Ran(processStream(cache, cacheFresh, store, remote, created, fail, serr))
    /\ UNCHANGED <<queue, dirty, processing, numRequeues, delayed, wstate, shuttingDown>>

StreamNext ==
    \/ UserEdit
    \/ UserDelete
    \/ InformerSync
    \/ \E fail \in StreamFailPoints, serr \in BOOLEAN : StreamReconcile(fail, serr)

StreamSpec == StreamInit /\ [][StreamNext]_vars

(* ------------------------- reading the last run ----------------------- *)

Count(seq, x) == Cardinality({i \in 1..Len(seq) : seq[i] = x})

Called(name) == Contains(last.calls, name)

Emitted(type, reason) == Contains(last.events, <<type, reason>>)

EmittedReason(reason) == \E i \in 1..Len(last.events) : last.events[i][2] = reason

\* The calls made on the backend client and its handles.
BackendCalls == SelectSeq(last.calls, LAMBDA c : c # "getCreds")

\* The run got as far as the switch: the credential lookup, Connect and the
\* existence check have returned without error.
Classified == last.ran /\ last.action \in {"create", "update", "delete", "noop"}

ReadyConditions(o) == SelectSeq(o.Conditions, LAMBDA c : c.Type = readyCondType)

\* The run read a present object that is not deleting.
RanOnLive == last.ran /\ last.pre.present /\ ~last.pre.deleting

Changed(o) == o.Generation # o.ObservedGeneration

(* -------------------------------- claims ------------------------------ *)

\* C1: a reconciliation of a non-deleting Consumer with Generation #
\* ObservedGeneration and no remote consumer, in which every backend and store
\* call succeeds, calls NewConsumer exactly once, leaves the object with the
\* Consumer finalizer set, ObservedGeneration = Generation and the condition
\* Ready=True, Reason=Created, and returns success.
C1_CreateLeavesFinalizerAndStatus ==
    (RanOnLive /\ Changed(last.pre) /\ ~last.preRemote /\ last.failed = <<>>) =>
        /\ Count(last.calls, "NewConsumer") = 1
        /\ store.present
        /\ Contains(store.Finalizers, consumerFinalizerKey)
        /\ store.ObservedGeneration = store.Generation
        /\ ReadyConditions(store) = <<CreatedCondition>>
        /\ last.err = <<>>

\* C2: a reconciliation of a deleting Consumer in which the calls succeed
\* deletes the remote consumer if it exists, removes the Consumer finalizer
\* from the object, and calls neither NewConsumer nor a remote Update,
\* whatever Generation and ObservedGeneration are.
C2_DeleteRemovesRemoteAndFinalizer ==
    (last.ran /\ last.pre.present /\ last.pre.deleting /\ last.failed = <<>>) =>
        /\ ~remote
        /\ last.preRemote => Called("Delete")
        /\ ~(store.present /\ Contains(store.Finalizers, consumerFinalizerKey))
        /\ ~Called("NewConsumer")
        /\ ~Called("Update")

\* C3: for a non-deleting Consumer with Generation # ObservedGeneration whose
\* remote consumer exists, a reconciliation makes no remote create, update or
\* delete call and does not change ObservedGeneration; once the existence
\* check has found the consumer it emits the Warning event Updating and
\* returns success.
C3_ImmutableUpdateOnlyWarns ==
    (RanOnLive /\ Changed(last.pre) /\ last.preRemote) =>
        /\ ~Called("NewConsumer") /\ ~Called("Update") /\ ~Called("Delete")
        /\ store.present = last.preStore.present
        /\ store.ObservedGeneration = last.preStore.ObservedGeneration
        /\ Classified =>
            /\ Emitted("Warning", "Updating")
            /\ last.writes = <<>>
            /\ last.err = <<>>

C3_Witness ==
    /\ RanOnLive /\ Changed(last.pre) /\ last.preRemote
    /\ last.action = "update"
    /\ last.pre.Generation = 2 /\ last.pre.ObservedGeneration = 1

\* C4: for a non-deleting Consumer with Generation = ObservedGeneration a
\* reconciliation makes no backend call other than Connect, LoadConsumer and
\* Close; once the existence check has returned it makes exactly these three,
\* writes nothing to the store, leaves the stored and the cached object as
\* they were (so the next run starts from the same object) and returns success.
C4_UnchangedIsNoop ==
    (RanOnLive /\ ~Changed(last.pre)) =>
        /\ \A i \in 1..Len(BackendCalls) :
              BackendCalls[i] \in {"Connect", "LoadConsumer", "Close"}
        /\ Classified =>
            /\ BackendCalls = <<"Connect", "LoadConsumer", "Close">>
            /\ last.writes = <<>>
            /\ store = last.preStore
            /\ cache = last.pre
            /\ last.err = <<>>

C4_Witness ==
    /\ RanOnLive /\ ~Changed(last.pre)
    /\ last.action = "noop"
    /\ reconciled /\ last.preStore = store /\ last.pre.Conditions # <<>>

\* C5: when Connect fails the reconciliation returns an error, makes no
\* LoadConsumer, NewConsumer, Update or Delete call, emits no Creating,
\* Created, Updating or Deleting event, writes no finalizer and leaves
\* ObservedGeneration alone; its only store write is one status write whose
\* condition list holds exactly one condition, of Reason Errored.
C5_ConnectFailureWritesOneErrored ==
    (last.ran /\ Contains(last.failed, "Connect")) =>
        /\ last.err # <<>>
        /\ \A c \in {"LoadConsumer", "NewConsumer", "Update", "Delete"} : ~Called(c)
        /\ \A r \in {"Creating", "Created", "Updating", "Deleting"} : ~EmittedReason(r)
        /\ Len(last.writes) = 1
        /\ last.writes[1].op = "UpdateStatus"
        /\ Len(last.writes[1].obj.Conditions) = 1
        /\ last.writes[1].obj.Conditions[1].Reason = "Errored"
        /\ store.present = last.preStore.present
        /\ store.Finalizers = last.preStore.Finalizers
        /\ store.ObservedGeneration = last.preStore.ObservedGeneration

C5_Witness ==
    /\ last.ran /\ last.failed = <<"Connect">>
    /\ last.pre.Conditions = <<CreatedCondition>>
    /\ last.writes[1].ok
    /\ store.Conditions = <<ErroredCondition("Connect")>>

StatusWritten == \E i \in 1..Len(last.writes) :
                    last.writes[i].op = "UpdateStatus" /\ last.writes[i].ok

\* C6 as stated: once a reconciliation of the resource has completed, its
\* Status.Conditions holds exactly one condition of Type Ready.
C6_ExactlyOneReadyAfterFirstRun ==
    (reconciled /\ store.present) => Len(ReadyConditions(store)) = 1

\* C6 amended: a Consumer never has more than one Ready condition; it has
\* exactly one after a reconciliation that wrote the status (a create, or the
\* error path); a reconciliation that ends in the update warning, the delete
\* or the no-op leaves the conditions as they were, none included.
C6_AtMostOneReadyOneOnceWritten ==
    /\ Len(ReadyConditions(store)) <= 1
    /\ Len(ReadyConditions(cache)) <= 1
    /\ (last.ran /\ store.present /\ StatusWritten) => Len(ReadyConditions(store)) = 1
    /\ (last.ran /\ store.present /\ last.err = <<>>
            /\ last.action \in {"update", "delete", "noop"}) =>
          store.Conditions = last.preStore.Conditions

C6_Witness ==
    /\ last.ran /\ last.action = "create" /\ last.err = <<>>
    /\ Len(ReadyConditions(last.preStore)) = 1
    /\ last.preStore.Conditions[1].Reason = "Errored"
    /\ store.Conditions = <<CreatedCondition>>

\* A token that `after` carries and `before` did not.
FinalizerAdded(before, after) ==
    \E t \in {consumerFinalizerKey, streamFinalizerKey} :
        Contains(after.Finalizers, t) /\ ~Contains(before.Finalizers, t)

\* C7 as stated: a reconciled resource that carries the finalizer token has
\* a remote consumer, unless creation has just failed.
C7_FinalizerImpliesRemote ==
    (reconciled /\ store.present /\ Contains(store.Finalizers, consumerFinalizerKey)) =>
        \/ remote
        \/ last.ran /\ Contains(last.failed, "New")

\* C7 amended: the reconciler adds a finalizer token to the object, stored or
\* cached, only in a create in which NewConsumer has succeeded, so the remote
\* consumer exists when the token is added.
C7_FinalizerAddedOnlyAfterNew ==
    (last.ran /\ last.pre.present
        /\ (FinalizerAdded(last.preStore, store) \/ FinalizerAdded(last.pre, cache))) =>
        /\ last.action = "create"
        /\ Called("NewConsumer") /\ ~Contains(last.failed, "New")
        /\ remote

C7_Witness ==
    /\ last.ran /\ FinalizerAdded(last.preStore, store)
    /\ last.failed = <<"SetOK">>
    /\ remote

\* C8: the reconciler changes Status.ObservedGeneration only in a create that
\* returns success, after NewConsumer has succeeded for the generation it
\* read, and then to that Generation; never on the error path and never on
\* the immutable-update path.
C8_ObservedGenerationOnlyAfterCreate ==
    (last.ran /\ store.present /\ last.preStore.present
        /\ store.ObservedGeneration # last.preStore.ObservedGeneration) =>
        /\ last.action = "create"
        /\ last.err = <<>>
        /\ Called("NewConsumer") /\ ~Contains(last.failed, "New")
        /\ remote
        /\ store.ObservedGeneration = store.Generation
        /\ store.Generation = last.pre.Generation

C8_Witness ==
    /\ last.ran /\ last.action = "create"
    /\ last.preStore.ObservedGeneration = 1
    /\ store.ObservedGeneration = 2 /\ store.Generation = 2
    /\ remote

\* C9: a deleting Consumer that carries the Consumer finalizer eventually has
\* it cleared, when workers are scheduled fairly and failures are transient.
C9_FinalizerEventuallyCleared ==
    (store.present /\ store.deleting /\ Contains(store.Finalizers, consumerFinalizerKey))
        ~> ~(store.present /\ Contains(store.Finalizers, consumerFinalizerKey))

\* C10: while a remote consumer made by the reconciler exists, the resource
\* is still in the store.
C10_NoOrphanedRemote ==
    (created /\ remote) => store.present

\* The last store write of the run.
LastWrite == last.writes[Len(last.writes)]

\* C11: a run in which a call fails after the object was read ends with a
\* status write whose condition list holds the Ready condition Status=False,
\* Reason=Errored, Message=the failure, and returns an error; when that
\* status write is accepted the stored object carries the condition, and when
\* it fails the returned error holds the first failure and the status-write
\* failure, in that order.
C11_ErrorsUpsertErroredAndReturn ==
    (last.ran /\ last.failed # <<>> /\ last.action # "geterror") =>
        /\ last.err # <<>>
        /\ last.err[1] = last.failed[1]
        /\ last.writes # <<>>
        /\ LastWrite.op = "UpdateStatus"
        /\ ReadyConditions(LastWrite.obj) = <<ErroredCondition(last.failed[1])>>
        /\ LastWrite.ok =>
              /\ store.present
              /\ ReadyConditions(store) = <<ErroredCondition(last.failed[1])>>
              /\ last.err = <<last.failed[1]>>
        /\ ~LastWrite.ok => last.err = <<last.failed[1], "UpdateStatus">>

C11_Witness ==
    /\ last.ran /\ last.action = "create"
    /\ last.failed = <<"SetFinalizer", "UpdateStatus">>
    /\ last.err = <<"SetFinalizer", "UpdateStatus">>
    /\ last.pre.Conditions = <<CreatedCondition>>
    /\ remote

\* The reasons of the events of the run, in the order they were emitted.
EventReasons == [i \in 1..Len(last.events) |-> last.events[i][2]]

\* C12: a reconciliation of a non-deleting Stream with Generation #
\* ObservedGeneration whose remote stream exists, in which every call
\* succeeds, calls the remote Update once, leaves the status with the
\* condition Ready=True, Reason=Updated and ObservedGeneration = Generation,
\* and emits the four events Connecting, Connected, Updating, Updated in
\* this order.
C12_StreamUpdateAppliesAndAdvances ==
    (RanOnLive /\ Changed(last.pre) /\ last.preRemote /\ last.failed = <<>>) =>
        /\ last.action = "update"
        /\ Count(last.calls, "Update") = 1
        /\ ~Called("NewStream") /\ ~Called("Delete")
        /\ store.present
        /\ ReadyConditions(store) = <<StreamUpdatedCondition>>
        /\ store.ObservedGeneration = store.Generation
        /\ EventReasons = <<"Connecting", "Connected", "Updating", "Updated">>
        /\ last.err = <<>>
        /\ remote

C12_Witness ==
    /\ RanOnLive /\ last.preRemote /\ last.failed = <<>>
    /\ last.pre.Generation = 2 /\ last.pre.ObservedGeneration = 1
    /\ last.pre.Conditions = <<StreamCreatedCondition>>
    /\ store.ObservedGeneration = 2
    /\ store.Conditions = <<StreamUpdatedCondition>>

\* The workers that hold the key.
InFlight == {w \in Workers : wstate[w] = "busy"}

\* C13: at most one worker holds the key at any time; while a worker holds
\* it the key is not in the queue, however often it was added meanwhile, and
\* is marked dirty at most, so that it is queued once when the run is done;
\* a key that waits and is not held is in the queue exactly once.
C13_OneInFlightOnePending ==
    /\ Cardinality(InFlight) <= 1
    /\ (InFlight # {}) <=> (Key \in processing)
    /\ queue = IF Key \in dirty /\ Key \notin processing THEN <<Key>> ELSE <<>>

C13_Witness ==
    /\ Cardinality(InFlight) = 1
    /\ \E w \in Workers : wstate[w] = "idle"
    /\ Key \in processing /\ Key \in dirty /\ queue = <<>>
    /\ cacheFresh /\ ~delayed /\ numRequeues > 0

\* A worker's run returns in this step.
RunReturns == \E w \in Workers : wstate[w] = "busy" /\ wstate'[w] = "idle"

\* C14: the count of failures kept for a key never exceeds maxQueueRetries;
\* a run that fails below that count raises the count by one and schedules
\* the key to be added again; a run that fails at that count drops the key:
\* no retry is scheduled; a run that succeeds schedules nothing and resets
\* the count to zero.
C14_RetryBoundedThenDropped ==
    /\ [](numRequeues \in 0..maxQueueRetries)
    /\ [][RunReturns =>
            /\ last'.ran
            /\ (last'.err # <<>> /\ numRequeues < maxQueueRetries) =>
                    (numRequeues' = numRequeues + 1 /\ delayed')
            /\ (last'.err # <<>> /\ numRequeues = maxQueueRetries) =>
                    (numRequeues' <= maxQueueRetries /\ delayed' = delayed)
            /\ (last'.err = <<>>) =>
                    (numRequeues' = 0 /\ delayed' = delayed)]_vars

\* A key dropped after its last retry failed: nothing is queued or scheduled.
C14_Witness ==
    /\ last.ran /\ last.err # <<>>
    /\ numRequeues = 0 /\ ~delayed
    /\ queue = <<>> /\ dirty = {} /\ processing = {}
    /\ cacheFresh

\* C15, first part: once the queue is shut down no worker starts a
\* reconciliation, and a worker that holds the key finishes its run.
C15_NoNewRunAfterShutdown ==
    /\ [][shuttingDown => \A w \in Workers : (wstate'[w] = "busy" => wstate[w] = "busy")]_vars
    /\ \A w \in Workers : (shuttingDown /\ wstate[w] = "busy") ~> (wstate[w] # "busy")

\* C15: after the queue is shut down no new reconciliation is started and
\* every worker loop eventually terminates.
C15_WorkersStopAfterShutdown ==
    /\ [][shuttingDown => \A w \in Workers : (wstate'[w] = "busy" => wstate[w] = "busy")]_vars
    /\ shuttingDown ~> (\A w \in Workers : wstate[w] = "stopped")

\* C16: a deleting Consumer that carries consumerFinalizerKey carries it no
\* more after a delete reconciliation that returned success, and a Consumer
\* carries consumerFinalizerKey after a create reconciliation that returned
\* success.
C16_ConsumerTokenAddedAndRemoved ==
    /\ (last.ran /\ last.action = "delete" /\ last.err = <<>>
            /\ Contains(last.pre.Finalizers, consumerFinalizerKey)) =>
          ~(store.present /\ Contains(store.Finalizers, consumerFinalizerKey))
    /\ (last.ran /\ last.action = "create" /\ last.err = <<>>) =>
          (store.present /\ Contains(store.Finalizers, consumerFinalizerKey))

\* The events by which a run announces the case of the switch it has taken.
CaseEvents == SelectSeq(EventReasons,
                        LAMBDA r : r \in {"Creating", "Updating", "Deleting", "Noop"})

\* C17: a run that reaches the switch takes exactly one case, decided by
\* exists (the existence check), deleting and changed (Generation #
\* ObservedGeneration) of the object it read: create iff ~exists /\ ~deleting
\* /\ changed, update iff exists /\ ~deleting /\ changed, delete iff deleting,
\* no-op iff ~deleting /\ ~changed.
C17_ClassificationTotalExclusive ==
    Classified =>
        LET exists == last.preRemote
            deleting == last.pre.deleting
            changed == Changed(last.pre)
        IN /\ (last.action = "create") <=> (~exists /\ ~deleting /\ changed)
           /\ (last.action = "update") <=> (exists /\ ~deleting /\ changed)
           /\ (last.action = "delete") <=> deleting
           /\ (last.action = "noop") <=> (~deleting /\ ~changed)
           /\ Len(CaseEvents) = 1
           /\ CaseEvents[1] = CASE last.action = "create" -> "Creating"
                                 [] last.action = "update" -> "Updating"
                                 [] last.action = "delete" -> "Deleting"
                                 [] last.action = "noop" -> "Noop"
           /\ Called("NewConsumer") => last.action = "create"
           /\ Called("Delete") => last.action = "delete"

C17_Witness ==
    /\ Classified
    /\ last.pre.deleting /\ Changed(last.pre) /\ ~last.preRemote
    /\ last.action = "delete"
    /\ EventReasons = <<"Connecting", "Connected", "Deleting">>

\* The run that returns in this step has sent the store an object whose
\* resourceVersion the store has left behind.
WroteStale ==
    /\ ~cacheFresh /\ cache.present /\ store.present
    /\ last'.ran /\ last'.writes # <<>>

\* C18: a run whose finalizer or status write meets a conflict recovers
\* inside the run: it returns success, writes no Errored condition, and
\* sends the stale object only once.
C18_ConflictRecoveredInRun ==
    [][WroteStale =>
          /\ last'.err = <<>>
          /\ \A i \in 1..Len(last'.writes) :
                \A j \in 1..Len(last'.writes[i].obj.Conditions) :
                    last'.writes[i].obj.Conditions[j].Reason # "Errored"
          /\ Cardinality({i \in 1..Len(last'.writes) : ~last'.writes[i].ok}) <= 1]_vars

\* C19: a reconciliation leaves the object the cache holds for the key as
\* it was; the cache changes only when the informer applies a watch event.
C19_WorkersLeaveCacheAlone ==
    [][last'.ran => cache' = cache]_vars

\* The run has had a finalizer write accepted by the store.
FinalizerWritten ==
    \E i \in 1..Len(last.writes) : last.writes[i].op = "Update" /\ last.writes[i].ok

\* C20: a delete reconciliation whose backend calls succeed, or whose
\* Delete fails with NotFound because the remote consumer went after it was
\* loaded, goes on to the finalizer write and, when the store accepts it,
\* returns success with the remote consumer gone; one whose LoadConsumer or
\* Delete fails otherwise returns an error and leaves the finalizers alone.
C20_DeleteToleratesNotFound ==
    /\ (last.ran /\ last.action = "delete" /\ last.pre = last.preStore
            /\ (last.failed = <<>> \/ last.failed[1] = "DeleteNotFound")) =>
          /\ last.err = <<>>
          /\ FinalizerWritten
          /\ ~remote
    /\ (last.ran /\ last.action = "delete"
            /\ (Contains(last.failed, "Delete") \/ Contains(last.failed, "DeleteLoad"))) =>
          /\ last.err # <<>>
          /\ ~FinalizerWritten
          /\ store.Finalizers = last.preStore.Finalizers

\* The run that has just returned was a create that failed after the remote
\* create had succeeded: at the finalizer write or at the status write.
CreateFailedAfterNew ==
    /\ last.ran /\ last.action = "create"
    /\ last.failed # <<>>
    /\ last.failed[1] \in {"SetFinalizer", "SetOK"}

HasFinalizerToken(o) ==
    Contains(o.Finalizers, consumerFinalizerKey) \/ Contains(o.Finalizers, streamFinalizerKey)

\* C21: when a create has failed after the remote create succeeded, the
\* next reconciliation, if all its calls succeed, leaves the resource with a
\* finalizer token, the condition Ready=True and ObservedGeneration =
\* Generation.
C21_RetryAfterPartialCreateConverges ==
    [][(CreateFailedAfterNew /\ last'.ran /\ last'.failed = <<>>) =>
          /\ store'.present
          /\ HasFinalizerToken(store')
          /\ Len(ReadyConditions(store')) = 1
          /\ ReadyConditions(store')[1].Status = "True"
          /\ store'.ObservedGeneration = store'.Generation]_vars

\* Connect was called in the run and returned without error.
ConnectSucceeded == Called("Connect") /\ ~Contains(last.failed, "Connect")

\* C22: a run calls Connect at most once; when Connect has succeeded the run
\* calls Close exactly once, as its last backend call, whatever the way it
\* returns; when Connect has failed or was not reached Close is not called.
C22_CloseOnceIffConnected ==
    last.ran =>
        /\ Count(last.calls, "Connect") <= 1
        /\ ConnectSucceeded =>
              /\ Count(last.calls, "Close") = 1
              /\ last.calls[Len(last.calls)] = "Close"
        /\ ~ConnectSucceeded => ~Called("Close")

C22_Witness ==
    /\ last.ran /\ last.action = "delete"
    /\ last.failed = <<"Delete", "UpdateStatus">>
    /\ Count(last.calls, "Close") = 1

\* The place of the first occurrence of e in the run's trace, 0 when absent.
Pos(e) ==
    IF \E i \in 1..Len(last.trace) : last.trace[i] = e
    THEN CHOOSE i \in 1..Len(last.trace) :
            last.trace[i] = e /\ \A j \in 1..(i - 1) : last.trace[j] # e
    ELSE 0

Before(e, f) == Pos(e) > 0 /\ Pos(f) > 0 /\ Pos(e) < Pos(f)

\* C23: in a run Connecting is emitted before Connect is called, Connected
\* only after Connect has succeeded, and both before any of Creating,
\* Updating, Deleting, Noop; a create that returns success emits exactly
\* Connecting, Connected, Creating, Created in this order; Created is
\* emitted only after NewConsumer, the finalizer write and the status write,
\* in this order, have all succeeded.
C23_EventsInOrder ==
    last.ran =>
        /\ Called("Connect") => Before(<<"event", "Connecting">>, <<"call", "Connect">>)
        /\ EmittedReason("Connecting") => Called("Connect")
        /\ EmittedReason("Connected") =>
              (ConnectSucceeded /\ Before(<<"call", "Connect">>, <<"event", "Connected">>))
        /\ \A r \in {"Creating", "Updating", "Deleting", "Noop"} :
              EmittedReason(r) =>
                 /\ Before(<<"event", "Connecting">>, <<"event", "Connected">>)
                 /\ Before(<<"event", "Connected">>, <<"event", r>>)
        /\ (last.action = "create" /\ last.err = <<>>) =>
              last.events = << <<"Normal", "Connecting">>, <<"Normal", "Connected">>,
                               <<"Normal", "Creating">>, <<"Normal", "Created">> >>
        /\ EmittedReason("Created") =>
              /\ last.err = <<>> /\ last.failed = <<>>
              /\ Before(<<"event", "Creating">>, <<"call", "NewConsumer">>)
              /\ Before(<<"call", "NewConsumer">>, <<"write", "Update">>)
              /\ Before(<<"write", "Update">>, <<"write", "UpdateStatus">>)
              /\ Before(<<"write", "UpdateStatus">>, <<"event", "Created">>)
              /\ \A i \in 1..Len(last.writes) : last.writes[i].ok

C23_Witness ==
    /\ last.ran /\ last.action = "create" /\ last.err = <<>>
    /\ EventReasons = <<"Connecting", "Connected", "Creating", "Created">>
    /\ Len(last.writes) = 2
    /\ store.ObservedGeneration = store.Generation

\* The status writes the run has sent to the store.
StatusWrites == SelectSeq(last.writes, LAMBDA w : w.op = "UpdateStatus")

\* C24: a run that returns success from the delete, the update warning or
\* the no-op sends no status write; a successful delete sends exactly one
\* store write, the Update that carries the finalizers; a run sends a status
\* write only in a create, after the remote create and the finalizer write,
\* or as its last write when it returns an error.
C24_StatusWrittenOnlyOnCreateOrError ==
    last.ran =>
        /\ (last.err = <<>> /\ last.action \in {"update", "noop", "absent"}) =>
              last.writes = <<>>
        /\ (last.err = <<>> /\ last.action = "delete") =>
              /\ Len(last.writes) = 1
              /\ last.writes[1].op = "Update" /\ last.writes[1].ok
              /\ StatusWrites = <<>>
              /\ store.present =>
                    /\ store.Conditions = last.preStore.Conditions
                    /\ store.ObservedGeneration = last.preStore.ObservedGeneration
        /\ (last.err = <<>> /\ StatusWrites # <<>>) =>
              /\ last.action = "create"
              /\ Len(StatusWrites) = 1
              /\ ReadyConditions(StatusWrites[1].obj) = <<CreatedCondition>>
        /\ (last.err # <<>>) =>
              \A i \in 1..Len(last.writes) :
                  (last.writes[i].op = "UpdateStatus"
                      /\ ReadyConditions(last.writes[i].obj) # <<CreatedCondition>>) =>
                    i = Len(last.writes)

C24_Witness ==
    /\ last.ran /\ last.action = "delete" /\ last.err = <<>>
    /\ last.preRemote /\ Called("Delete")
    /\ last.pre.Conditions = <<CreatedCondition>>
    /\ Len(last.writes) = 1

\* The run has touched nothing: no call, no event, no store write, and the
\* store, the cache and the backend are as they were.
RunLeftNoMark ==
    /\ last.calls = <<>> /\ last.events = <<>> /\ last.writes = <<>>
    /\ store = last.preStore /\ cache = last.pre /\ remote = last.preRemote

\* C25: a run that finds no object for the key in the cache returns success
\* without resolving credentials, connecting, emitting an event or writing
\* to the store; a run whose cache read fails otherwise returns that error
\* and likewise writes no status.
C25_AbsentOrUnreadableLeavesNoMark ==
    last.ran =>
        /\ (~last.pre.present /\ ~Contains(last.failed, "Get")) =>
              (last.action = "absent" /\ last.err = <<>> /\ RunLeftNoMark)
        /\ Contains(last.failed, "Get") =>
              (last.action = "geterror" /\ last.err = <<"Get">> /\ RunLeftNoMark)

\* The object has been reconciled, deleted and dropped from the cache, and
\* the key is reconciled once more.
C25_Witness ==
    /\ last.ran /\ last.action = "absent"
    /\ ~last.pre.present /\ ~store.present
    /\ reconciled

====
